---- MODULE Spec2Model ----
(***************************************************************************)
(* rshttps: a static file server with an in-memory cache (src/main.rs).    *)
(*                                                                         *)
(* One thread per connection runs handle_client; one thread runs           *)
(* setup_file_watcher, which removes cache entries when the notify crate   *)
(* reports a change.  The cache is a HashMap behind one RwLock.            *)
(*                                                                         *)
(* Strings are modelled as sequences of tokens so that the code's slicing  *)
(* (&path[1..]), joining (base_dir.join) and formatting (format!) are      *)
(* computed, not assumed.  A request target "/a/b.js" is the sequence      *)
(* <<"/", "a", "/", "b.js">>; an absolute file path is the sequence of its *)
(* components, <<"srv", "a", "b.js">>.                                     *)
(***************************************************************************)
EXTENDS Integers, Sequences, FiniteSets, TLC

(***************************************************************************)
(* Bounds of the model.                                                    *)
(***************************************************************************)
\* number of clock ticks the model lets pass
MaxTicks == 4
\* milliseconds per clock tick
TickMs == 100
\* number of modifications one file undergoes
MaxVer == 3
\* notifications waiting in the watcher's channel
MaxQueue == 2

(***************************************************************************)
(* Program constants.                                                      *)
(***************************************************************************)
\* Duration::from_millis(200)
DebounceMs == 200

\* what a path of the file system holds
NoFile == [kind |-> "none", data |-> <<>>]
Directory == [kind |-> "dir", data |-> <<>>]
RegularFile(bytes) == [kind |-> "file", data |-> bytes]

\* a missing extension, a missing ledger entry
None == "none"
Never == -1

\* connection threads (thread::spawn per accepted stream)
Conns == {"c1", "c2"}
Engine == "engine"

\* std::env::current_dir(): the watch root, as path components
BaseDir == <<"srv">>

(***************************************************************************)
(* The file system: absolute paths (component sequences) of the model.     *)
(***************************************************************************)
IndexFile == <<"srv", "index.html">>
DataFile == <<"srv", "data.bin">>
AssetsDir == <<"srv", "assets">>
MissingFile == <<"srv", "missing.css">>
\* a file outside the watch root
OutsideFile == <<"etc", "secret.html">>

\* every path the model's file system knows about
Files == {IndexFile, DataFile, AssetsDir, MissingFile, OutsideFile}
\* the files the environment writes to
Writable == {IndexFile, DataFile}
\* the files the environment removes
Removable == {IndexFile}

\* the content a file has after its v-th modification: v bytes
Body(v) == [i \in 1..v |-> IF v = 1 THEN "a" ELSE IF v = 2 THEN "b" ELSE "c"]

(***************************************************************************)
(* Request targets (the second word of the request line, line 137).       *)
(***************************************************************************)
TRoot == <<"/">>
TIndex == <<"/", "index.html">>
TData == <<"/", "data.bin">>
TAssets == <<"/", "assets">>
TMissing == <<"/", "missing.css">>

Targets == {TRoot, TIndex, TData, TAssets, TMissing}

\* targets a client can send that are not a plain path under the root: a doubled
\* leading separator, a parent-directory segment leading out of the root, and a
\* parent-directory segment leading back to a file under the root
TDouble == <<"/", "/", "etc", "/", "secret.html">>
TParent == <<"/", "..", "/", "etc", "/", "secret.html">>
TAlias == <<"/", "assets", "/", "..", "/", "index.html">>

Crooked == {TDouble, TParent, TAlias}
Methods == {"GET", "POST"}

(***************************************************************************)
(* Path and string functions of the code and of std::path.                 *)
(***************************************************************************)
\* faulty variant of line 145: the root target is not mapped
ResolvePathRaw(path) == path

\* line 145: path = if path == "/" { "/index.html" } else { path }
ResolvePath(path) == IF path = <<"/">> THEN <<"/", "index.html">> ELSE path

\* line 155: &path[1..], the target without its first byte
StripLeading(path) == Tail(path)

\* the components of a path string: what stands between the separators
RECURSIVE Components(_)
Components(s) ==
  IF s = <<>> THEN <<>>
  ELSE IF Head(s) = "/" THEN Components(Tail(s))
  ELSE <<Head(s)>> \o Components(Tail(s))

\* Path::join: an absolute argument replaces the base, a relative one extends it
Join(base, rel) ==
  IF rel # <<>> /\ Head(rel) = "/" THEN Components(rel)
  ELSE base \o Components(rel)

\* the file a component sequence names once the OS has followed its ".."
RECURSIVE Walk(_, _)
Walk(done, rest) ==
  IF rest = <<>> THEN done
  ELSE IF Head(rest) = ".."
    THEN Walk(IF done = <<>> THEN <<>> ELSE SubSeq(done, 1, Len(done) - 1), Tail(rest))
  ELSE Walk(Append(done, Head(rest)), Tail(rest))

\* line 155: base_dir.join(&path[1..]), as the file the OS opens for it
FilePath(path) == Walk(<<>>, Join(BaseDir, StripLeading(path)))

\* Path::extension of the last component
Extension(p) ==
  IF p = <<>> THEN None
  ELSE LET name == p[Len(p)] IN
    CASE name = "index.html" -> "html"
      [] name = "secret.html" -> "html"
      [] name = "missing.css" -> "css"
      [] name = "data.bin" -> "bin"
      [] OTHER -> None

\* faulty variant of line 82: every path with an extension
RecognizedAny(p) == Extension(p) # None

\* line 82: the extensions the watcher reacts to
Recognized(p) == Extension(p) \in {"html", "css", "js"}

\* Path::strip_prefix(base): Ok(the rest of p), or Err when base is no prefix of p
StripPrefix(p, base) ==
  IF Len(p) >= Len(base) /\ SubSeq(p, 1, Len(base)) = base
    THEN [ok |-> TRUE, rest |-> SubSeq(p, Len(base) + 1, Len(p))]
    ELSE [ok |-> FALSE, rest |-> <<>>]

\* a relative path as a string: its components with separators between them
RECURSIVE Display(_)
Display(comps) ==
  IF comps = <<>> THEN <<>>
  ELSE IF Len(comps) = 1 THEN comps
  ELSE <<Head(comps), "/">> \o Display(Tail(comps))

\* line 83: format!("/{}", path.strip_prefix(base_dir).unwrap_or(&path))
RelativePath(p) ==
  LET rel == StripPrefix(p, BaseDir) IN
    IF rel.ok THEN <<"/">> \o Display(rel.rest)
    ELSE <<"/", "/">> \o Display(p)

\* faulty variant of line 159: no file's type is known
MimeGuessNone(p) == "application/octet-stream"

\* line 159: mime_guess::from_path(..).first_or_octet_stream()
MimeGuess(p) ==
  CASE Extension(p) = "html" -> "text/html"
    [] Extension(p) = "css" -> "text/css"
    [] Extension(p) = "js" -> "application/javascript"
    [] OTHER -> "application/octet-stream"

(***************************************************************************)
(* Responses, as the sequence of tokens written to the stream.             *)
(***************************************************************************)
CRLF == "\r\n"

\* lines 176-180
ContentTypeHeader(mime_type) ==
  IF mime_type = "application/octet-stream" THEN <<>>
  ELSE <<"Content-Type: " \o mime_type, CRLF, CRLF>>

\* lines 171-191
RespondWithFile(contents, mime_type) ==
  <<"HTTP/1.1 200 OK", CRLF,
    "Content-Length: " \o ToString(Len(contents)), CRLF>>
  \o ContentTypeHeader(mime_type)
  \o contents

\* lines 194-207
RespondWithError(code, message) ==
  LET body == "<h1>" \o ToString(code) \o " " \o message \o "</h1>" IN
    <<"HTTP/1.1 " \o ToString(code) \o " " \o message, CRLF,
      "Content-Length: " \o ToString(Len(body)), CRLF,
      "Content-Type: text/html", CRLF, CRLF,
      body>>

(***************************************************************************)
(* State.                                                                  *)
(***************************************************************************)
VARIABLES
  now,              \* the monotonic clock (Instant::now), in ms
  fs,               \* the file system: path -> what it holds
  ver,              \* number of modifications each writable file has seen
  queue,            \* the watcher's channel (tx -> rx), oldest first
  watcher,          \* the watcher thread: its position and the paths left in its batch
  last_event_time,  \* the debounce ledger: key -> time of the last accepted event
  cache,            \* the HashMap behind the RwLock: key -> (contents, mime_type)
  readers,          \* the threads holding the RwLock in read mode
  writer,           \* the thread holding the RwLock in write mode
  conn,             \* the connection threads: position and locals of handle_client
  obs,              \* history: what each request has done and what it was owed
  hist,             \* history: of the files' changes and of the store's keys
  monitor           \* which histories are recorded (fixed by the specification)

vars == <<now, fs, ver, queue, watcher, last_event_time, cache, readers, writer, conn,
          obs, hist, monitor>>

NoOne == "nobody"

\* a connection slot no thread runs in
IdleConn ==
  [pc |-> "idle", method |-> "", target |-> <<>>, path |-> <<>>,
   contents |-> <<>>, mime_type |-> "", out |-> <<>>]

\* what the file system holds at p
FileAt(p) == IF p \in DOMAIN fs THEN fs[p] ELSE NoFile

\* faulty variant of line 157: file_path.exists() alone
IsFileExists(p) == FileAt(p).kind # "none"

\* line 157: file_path.exists() && file_path.is_file()
IsFile(p) == FileAt(p).kind # "none" /\ FileAt(p).kind = "file"

\* faulty variant of line 141: POST is served too
AllowedAny(method) == method \in {"GET", "POST"}

\* line 141: the methods that are served
Allowed(method) == method = "GET"

\* faulty variant of line 162: an entry of the key is kept (entry().or_insert)
CacheInsertKeep(map, key, contents, mime_type) ==
  [k \in DOMAIN map \cup {key} |->
     IF k \in DOMAIN map THEN map[k]
     ELSE [contents |-> contents, mime_type |-> mime_type]]

\* line 162: HashMap::insert, replacing any entry of the key
CacheInsert(map, key, contents, mime_type) ==
  [k \in DOMAIN map \cup {key} |->
     IF k = key THEN [contents |-> contents, mime_type |-> mime_type] ELSE map[k]]

\* line 98: HashMap::remove, a no-op when the key is absent
CacheRemove(map, key) == [k \in DOMAIN map \ {key} |-> map[k]]

\* faulty variant of lines 87-91: one window for all keys
SuppressedAnyKey(ledger, key, t) ==
  \E k \in DOMAIN ledger : t - ledger[k] < DebounceMs

\* faulty variant of lines 87-91: the comparison is the wrong way round
SuppressedLate(ledger, key, t) ==
  key \in DOMAIN ledger /\ t - ledger[key] > DebounceMs

\* lines 87-91: an event for the key is skipped when the last accepted one is recent
Suppressed(ledger, key, t) ==
  key \in DOMAIN ledger /\ t - ledger[key] < DebounceMs

\* line 94: HashMap::insert on the ledger
LedgerInsert(ledger, key, t) ==
  [k \in DOMAIN ledger \cup {key} |-> IF k = key THEN t ELSE ledger[k]]

\* the watch is registered: the notify backend reports changes under BaseDir
Watching == watcher.pc \notin {"init", "dead"}

\* a request is being handled in the slot
InFlight(c) == conn[c].pc \notin {"idle", "done", "failed"}

(***************************************************************************)
(* History variables.  They record what happened and are read by no       *)
(* action's program part.  monitor names the histories a specification    *)
(* records: "fresh" (what a request is owed after a change), "fill" (the   *)
(* first disk read of each key), "watch" (what the watcher did with each   *)
(* item of its channel) and "store" (the contents each file has held);    *)
(* the rest is always recorded.                                           *)
(***************************************************************************)
\* the files whose changes the watcher reacts to, the keys requests use, and the
\* keys the watcher computes
Tracked == {f \in Writable : Recognized(f)}
Keys == {ResolvePath(t) : t \in Targets \cup Crooked}
EventKeys == {RelativePath(f) : f \in Files}

\* the version of a content: Body(v) has v bytes
VersionOf(bytes) == Len(bytes)

\* trace: the steps the request has taken; owedQuiet, owedAccepted: the version it
\* is owed (0: none); later: it started after the first fill of its key;
\* unwatched: it started after the watcher thread had died
IdleObs ==
  [trace |-> <<>>, owedQuiet |-> 0, owedAccepted |-> 0, later |-> FALSE,
   unwatched |-> FALSE]

Unread == [state |-> "never", data |-> <<>>, by |-> NoOne]
Void == [state |-> "void", data |-> <<>>, by |-> NoOne]

InitHist ==
  [lastMod   |-> [f \in Tracked |-> Never],  \* time of the file's last modification
   settled   |-> [f \in Tracked |-> FALSE],  \* the key was stored when the file was last
                                             \* modified, and no request ran since
   handled   |-> [f \in Tracked |-> FALSE],  \* the watcher has matched the event of the
                                             \* file's last modification
   accepted  |-> [f \in Tracked |-> FALSE],  \* and has accepted it
   first     |-> [k \in Keys |-> Unread],    \* the first disk read for the key
   refilled  |-> [k \in Keys |-> FALSE],     \* another request inserted after the first
   removedAt |-> [k \in EventKeys |-> Never],\* time of the last remove call for the key
   skipped   |-> [k \in EventKeys |-> FALSE],\* the last event for the key was suppressed
   tooSoon   |-> FALSE,                      \* two remove calls for a key less than the
                                             \* window apart
   batch     |-> <<>>,                       \* what became of each path of the batch the
                                             \* watcher is working on
   prior     |-> "none",                     \* the item skipped since the last batch
   stormed   |-> FALSE,                      \* an event was accepted after suppressed ones
   had       |-> [f \in Files |->            \* the contents the file has held
                    IF f \in Writable \cup {OutsideFile} THEN {Body(1)} ELSE {}]]

InitWith(recorded) ==
  /\ now = 0
  /\ fs = [f \in Files |->
             IF f \in Writable \cup {OutsideFile} THEN RegularFile(Body(1))
             ELSE IF f = AssetsDir THEN Directory ELSE NoFile]
  /\ ver = [f \in Writable |-> 1]
  /\ queue = <<>>
  /\ watcher = [pc |-> "init", paths |-> <<>>, vers |-> <<>>]
  /\ last_event_time = <<>>
  /\ cache = <<>>
  /\ readers = {}
  /\ writer = NoOne
  /\ conn = [c \in Conns |-> IdleConn]
  /\ obs = [c \in Conns |-> IdleObs]
  /\ hist = InitHist
  /\ monitor = recorded

Init == InitWith({})

(***************************************************************************)
(* The environment: the clock and changes to the files.                    *)
(***************************************************************************)
Tick ==
  /\ now + TickMs <= MaxTicks * TickMs
  /\ now' = now + TickMs
  /\ UNCHANGED <<monitor, fs, ver, queue, watcher, last_event_time, cache, readers, writer, conn,
                 obs, hist>>

\* the notification the notify backend sends for a change, if the watch is registered
Notify(kind, f) ==
  IF Watching
    THEN Append(queue, [ok |-> TRUE, kind |-> kind, paths |-> <<f>>, vers |-> <<ver[f] + 1>>])
    ELSE queue

\* history of a change to f
Changed(f) ==
  hist' = IF f \in Tracked /\ "fresh" \in monitor
    THEN [hist EXCEPT !.lastMod[f] = now,
                      !.settled[f] = /\ RelativePath(f) \in DOMAIN cache
                                     /\ Watching
                                     /\ \A c \in Conns : ~InFlight(c),
                      !.handled[f] = FALSE,
                      !.accepted[f] = FALSE]
    ELSE IF "store" \in monitor /\ fs'[f].kind = "file"
    THEN [hist EXCEPT !.had[f] = @ \cup {fs'[f].data}]
    ELSE hist

\* a file under the root is written (created if it was removed)
WriteFile(f) ==
  /\ f \in Writable
  /\ ver[f] < MaxVer
  /\ Len(queue) < MaxQueue
  /\ ver' = [ver EXCEPT ![f] = @ + 1]
  /\ fs' = [fs EXCEPT ![f] = RegularFile(Body(ver[f] + 1))]
  /\ queue' = Notify(IF fs[f].kind = "none" THEN "create" ELSE "modify", f)
  /\ Changed(f)
  /\ UNCHANGED <<monitor, now, watcher, last_event_time, cache, readers, writer, conn, obs>>

\* a file under the root is removed
RemoveFile(f) ==
  /\ f \in Removable
  /\ fs[f].kind = "file"
  /\ ver[f] < MaxVer
  /\ Len(queue) < MaxQueue
  /\ ver' = [ver EXCEPT ![f] = @ + 1]
  /\ fs' = [fs EXCEPT ![f] = NoFile]
  /\ queue' = Notify("remove", f)
  /\ Changed(f)
  /\ UNCHANGED <<monitor, now, watcher, last_event_time, cache, readers, writer, conn, obs>>

\* the items the notify backend sends besides those of the changes above: an
\* error, an event of a kind the watcher does not match, a batch whose first
\* paths have no extension and an extension the watcher ignores, and an event
\* for a second key
Notices ==
  {[ok |-> FALSE, kind |-> "error", paths |-> <<IndexFile>>, vers |-> <<0>>],
   [ok |-> TRUE, kind |-> "access", paths |-> <<IndexFile>>, vers |-> <<0>>],
   [ok |-> TRUE, kind |-> "modify", paths |-> <<AssetsDir, DataFile, IndexFile>>,
    vers |-> <<0, 0, 0>>],
   [ok |-> TRUE, kind |-> "remove", paths |-> <<MissingFile>>, vers |-> <<0>>]}

\* the backend sends an item down the channel
Emit(item) ==
  /\ Watching
  /\ Len(queue) < MaxQueue
  /\ queue' = Append(queue, item)
  /\ UNCHANGED <<monitor, now, fs, ver, watcher, last_event_time, cache, readers, writer, conn,
                 obs, hist>>

(***************************************************************************)
(* setup_file_watcher (lines 65-107).                                      *)
(***************************************************************************)
\* lines 66-70: the watcher is created and the watch registered
WatchStart ==
  /\ watcher.pc = "init"
  /\ watcher' = [watcher EXCEPT !.pc = "recv"]
  /\ UNCHANGED <<monitor, now, fs, ver, queue, last_event_time, cache, readers, writer, conn,
                 obs, hist>>

\* lines 67-68: .expect() panics the watcher thread; main (lines 34-50) goes on
WatchFail ==
  /\ watcher.pc = "init"
  /\ watcher' = [watcher EXCEPT !.pc = "dead"]
  /\ UNCHANGED <<monitor, now, fs, ver, queue, last_event_time, cache, readers, writer, conn,
                 obs, hist>>

\* faulty variant of lines 73-78: the paths of an Err item are processed too
MatchedErr(item) == item.kind \in {"modify", "create", "remove", "error"}

\* lines 73-78: the first arm of the match, Ok(Event) of kind Modify, Create or Remove
Matched(item) == item.ok /\ item.kind \in {"modify", "create", "remove"}

\* lines 72-78, 103-104: the next item of the channel is matched
Receive ==
  /\ watcher.pc = "recv"
  /\ queue # <<>>
  /\ queue' = Tail(queue)
  /\ watcher' =
       IF Matched(Head(queue))
         THEN [pc |-> "lock", paths |-> Head(queue).paths, vers |-> Head(queue).vers]
         ELSE watcher
  /\ hist' = IF "watch" \in monitor /\ ~Head(queue).ok
                THEN [hist EXCEPT !.prior = "error"]
              ELSE IF "watch" \in monitor /\ Head(queue).kind \notin {"modify", "create", "remove"}
                THEN [hist EXCEPT !.prior = "dropped"]
              ELSE hist
  /\ UNCHANGED <<monitor, now, fs, ver, last_event_time, cache, readers, writer, conn, obs>>

\* line 79: cache.write() is granted
WatcherLock ==
  /\ watcher.pc = "lock"
  /\ writer = NoOne
  /\ readers = {}
  /\ writer' = Engine
  /\ watcher' = [watcher EXCEPT !.pc = "loop"]
  /\ UNCHANGED <<monitor, now, fs, ver, queue, last_event_time, cache, readers, conn, obs, hist>>

\* history of one path of a batch: v is the version the event was sent for
Processed(path, key, v, accept) ==
  LET latest == path \in Tracked /\ "fresh" \in monitor /\ v = ver[path]
      voids == accept /\ key \in Keys /\ hist.first[key].state # "never"
  IN hist' = [hist EXCEPT
       !.handled = IF latest THEN [@ EXCEPT ![path] = TRUE] ELSE @,
       !.accepted = IF latest /\ accept THEN [@ EXCEPT ![path] = TRUE] ELSE @,
       !.first = IF voids THEN [@ EXCEPT ![key] = Void] ELSE @,
       !.refilled = IF voids THEN [@ EXCEPT ![key] = FALSE] ELSE @,
       !.removedAt = IF accept THEN [@ EXCEPT ![key] = now] ELSE @,
       !.skipped = IF Recognized(path) THEN [@ EXCEPT ![key] = ~accept] ELSE @,
       !.tooSoon = \/ @
                   \/ /\ accept
                      /\ hist.removedAt[key] # Never
                      /\ now - hist.removedAt[key] < DebounceMs,
       !.batch = IF "watch" \in monitor
                   THEN Append(@, IF accept THEN "accepted"
                                  ELSE IF Recognized(path) THEN "suppressed"
                                  ELSE "filtered")
                   ELSE @,
       !.stormed = \/ @
                   \/ /\ "watch" \in monitor
                      /\ accept
                      /\ hist.removedAt[key] # Never
                      /\ hist.skipped[key]]

\* lines 80-100: one path of the batch
ProcessPath ==
  /\ watcher.pc = "loop"
  /\ watcher.paths # <<>>
  /\ LET path == Head(watcher.paths)
         relative_path == RelativePath(path)
         accept == Recognized(path) /\ ~Suppressed(last_event_time, relative_path, now)
     IN /\ last_event_time' =
             IF accept THEN LedgerInsert(last_event_time, relative_path, now)
             ELSE last_event_time
        /\ cache' = IF accept THEN CacheRemove(cache, relative_path) ELSE cache
        /\ Processed(path, relative_path, Head(watcher.vers), accept)
  /\ watcher' = [watcher EXCEPT !.paths = Tail(@), !.vers = Tail(@)]
  /\ UNCHANGED <<monitor, now, fs, ver, queue, readers, writer, conn, obs>>

\* line 102: the batch is done and cache_guard is dropped
WatcherUnlock ==
  /\ watcher.pc = "loop"
  /\ watcher.paths = <<>>
  /\ writer' = NoOne
  /\ watcher' = [watcher EXCEPT !.pc = "recv"]
  /\ hist' = [hist EXCEPT !.batch = <<>>, !.prior = "none"]
  /\ UNCHANGED <<monitor, now, fs, ver, queue, last_event_time, cache, readers, conn, obs>>

(***************************************************************************)
(* handle_client (lines 110-168), one thread per connection.               *)
(***************************************************************************)
\* history: the content a request starting now is owed when the file of its key
\* was modified while stored, the event has been matched, and more than the
\* window has passed since, with no request running since the modification
OwedQuiet(key) ==
  LET f == FilePath(key) IN
    IF /\ f \in Tracked
       /\ FileAt(f).kind = "file"
       /\ hist.settled[f]
       /\ hist.handled[f]
       /\ watcher.pc = "recv"
       /\ now - hist.lastMod[f] > DebounceMs
    THEN ver[f] ELSE 0

\* history: the content a request starting now is owed when the event of the
\* file's latest modification was accepted and the window has passed since
OwedAccepted(key) ==
  LET f == FilePath(key) IN
    IF /\ f \in Tracked
       /\ FileAt(f).kind = "file"
       /\ hist.accepted[f]
       /\ key \in DOMAIN last_event_time
       /\ now - last_event_time[key] >= DebounceMs
    THEN ver[f] ELSE 0

\* lines 38-43, 115-143: a connection is accepted, its request read and parsed
Request(c, method, target) ==
  /\ conn[c].pc = "idle"
  /\ conn' = [conn EXCEPT ![c] =
       IF Allowed(method)
         THEN [IdleConn EXCEPT !.pc = "lookup", !.method = method, !.target = target,
                               !.path = ResolvePath(target)]
         ELSE [IdleConn EXCEPT !.pc = "write", !.method = method, !.target = target,
                               !.path = target,
                               !.out = RespondWithError(405, "Method Not Allowed")]]
  /\ obs' = [obs EXCEPT ![c] =
       IF method = "GET"
         THEN [IdleObs EXCEPT !.owedQuiet = OwedQuiet(ResolvePath(target)),
                              !.owedAccepted = OwedAccepted(ResolvePath(target)),
                              !.later = hist.first[ResolvePath(target)].state = "inserted",
                              !.unwatched = watcher.pc = "dead"]
         ELSE [IdleObs EXCEPT !.unwatched = watcher.pc = "dead"]]
  /\ hist' = [hist EXCEPT !.settled = [f \in Tracked |-> FALSE]]
  /\ UNCHANGED <<monitor, now, fs, ver, queue, watcher, last_event_time, cache, readers, writer>>

\* faulty variant of lines 147-153: the file is looked for without a lookup
LookupNever(c) ==
  /\ conn[c].pc = "lookup"
  /\ conn' = [conn EXCEPT ![c].pc = "check"]
  /\ UNCHANGED <<monitor, now, fs, ver, queue, watcher, last_event_time, cache, readers, writer,
                 obs, hist>>

\* lines 147-153: cache.read() is granted and the key looked up; on a hit the
\* guard lives on while respond_with_file runs, on a miss it is dropped
Lookup(c) ==
  /\ conn[c].pc = "lookup"
  /\ writer = NoOne
  /\ IF conn[c].path \in DOMAIN cache
       THEN /\ readers' = readers \cup {c}
            /\ conn' = [conn EXCEPT ![c].pc = "write",
                                    ![c].contents = cache[conn[c].path].contents,
                                    ![c].mime_type = cache[conn[c].path].mime_type,
                                    ![c].out = RespondWithFile(cache[conn[c].path].contents,
                                                               cache[conn[c].path].mime_type)]
            /\ obs' = [obs EXCEPT ![c].trace = Append(@, "hit")]
       ELSE /\ readers' = readers
            /\ conn' = [conn EXCEPT ![c].pc = "check"]
            /\ obs' = [obs EXCEPT ![c].trace = Append(@, "miss")]
  /\ UNCHANGED <<monitor, now, fs, ver, queue, watcher, last_event_time, cache, writer, hist>>

\* lines 155-157, 165-166: the file is looked for
CheckFile(c) ==
  /\ conn[c].pc = "check"
  /\ conn' = [conn EXCEPT ![c] =
       IF IsFile(FilePath(conn[c].path))
         THEN [@ EXCEPT !.pc = "read"]
         ELSE [@ EXCEPT !.pc = "write", !.out = RespondWithError(404, "Not Found")]]
  /\ obs' = [obs EXCEPT ![c].trace =
       Append(@, IF FileAt(FilePath(conn[c].path)).kind = "file" THEN "file" ELSE "nofile")]
  /\ UNCHANGED <<monitor, now, fs, ver, queue, watcher, last_event_time, cache, readers, writer,
                 hist>>

\* lines 158-159: fs::read and the MIME guess; a failed read returns Err (the ?)
ReadFile(c) ==
  /\ conn[c].pc = "read"
  /\ LET file_path == FilePath(conn[c].path)
         key == conn[c].path
     IN IF FileAt(file_path).kind = "file"
          THEN /\ conn' = [conn EXCEPT ![c].pc = "insert",
                                       ![c].contents = FileAt(file_path).data,
                                       ![c].mime_type = MimeGuess(file_path)]
               /\ obs' = [obs EXCEPT ![c].trace = Append(@, "read")]
               /\ hist' = IF "fill" \in monitor /\ hist.first[key].state = "never"
                    THEN [hist EXCEPT !.first[key] =
                            [state |-> "read", data |-> FileAt(file_path).data, by |-> c]]
                    ELSE hist
          ELSE /\ conn' = [conn EXCEPT ![c].pc = "failed"]
               /\ obs' = [obs EXCEPT ![c].trace = Append(@, "readerr")]
               /\ hist' = hist
  /\ UNCHANGED <<monitor, now, fs, ver, queue, watcher, last_event_time, cache, readers, writer>>

\* lines 161-164: cache.write() is granted and the entry inserted; the guard
\* lives on while respond_with_file runs
Insert(c) ==
  /\ conn[c].pc = "insert"
  /\ writer = NoOne
  /\ readers = {}
  /\ writer' = c
  /\ cache' = CacheInsert(cache, conn[c].path, conn[c].contents, conn[c].mime_type)
  /\ conn' = [conn EXCEPT ![c].pc = "write",
                          ![c].out = RespondWithFile(conn[c].contents, conn[c].mime_type)]
  /\ obs' = [obs EXCEPT ![c].trace = Append(@, "insert")]
  /\ LET key == conn[c].path IN
       hist' = IF hist.first[key].state = "read" /\ hist.first[key].by = c
                 THEN [hist EXCEPT !.first[key].state = "inserted",
                                   !.first[key].by = NoOne]
               ELSE IF hist.first[key].state = "inserted"
                 THEN [hist EXCEPT !.refilled[key] = TRUE]
               ELSE hist
  /\ UNCHANGED <<monitor, now, fs, ver, queue, watcher, last_event_time, readers>>

\* the locks a thread lets go of when handle_client returns
Released(c) ==
  /\ readers' = readers \ {c}
  /\ writer' = IF writer = c THEN NoOne ELSE writer

\* lines 188-190, 204-206: the client has read the response and the writes return
Written(c) ==
  /\ conn[c].pc = "write"
  /\ conn' = [conn EXCEPT ![c].pc = "done"]
  /\ Released(c)
  /\ UNCHANGED <<monitor, now, fs, ver, queue, watcher, last_event_time, cache, obs, hist>>

\* lines 188-190, 204-206: the client is gone and a write returns Err
Broken(c) ==
  /\ conn[c].pc = "write"
  /\ conn' = [conn EXCEPT ![c].pc = "failed"]
  /\ Released(c)
  /\ UNCHANGED <<monitor, now, fs, ver, queue, watcher, last_event_time, cache, obs, hist>>

\* lines 43-49: the connection thread ends
Close(c) ==
  /\ conn[c].pc \in {"done", "failed"}
  /\ conn' = [conn EXCEPT ![c] = IdleConn]
  /\ obs' = [obs EXCEPT ![c] = IdleObs]
  /\ UNCHANGED <<monitor, now, fs, ver, queue, watcher, last_event_time, cache, readers, writer,
                 hist>>

(***************************************************************************)
(* Specifications.                                                         *)
(***************************************************************************)
\* the whole server: every request, every change, the clock
Next ==
  \/ Tick
  \/ \E f \in Files : WriteFile(f)
  \/ \E f \in Files : RemoveFile(f)
  \/ \E item \in Notices : Emit(item)
  \/ WatchStart
  \/ WatchFail
  \/ Receive
  \/ WatcherLock
  \/ ProcessPath
  \/ WatcherUnlock
  \/ \E c \in Conns, method \in Methods, target \in Targets \cup Crooked :
       Request(c, method, target)
  \/ \E c \in Conns : Lookup(c)
  \/ \E c \in Conns : CheckFile(c)
  \/ \E c \in Conns : ReadFile(c)
  \/ \E c \in Conns : Insert(c)
  \/ \E c \in Conns : Written(c)
  \/ \E c \in Conns : Broken(c)
  \/ \E c \in Conns : Close(c)

Spec == Init /\ [][Next]_vars

\* freshness: requests for the index page while the file is rewritten and time passes
NextFresh ==
  \/ Tick
  \/ WriteFile(IndexFile)
  \/ WatchStart
  \/ Receive
  \/ WatcherLock
  \/ ProcessPath
  \/ WatcherUnlock
  \/ \E c \in Conns : Request(c, "GET", TIndex)
  \/ \E c \in Conns : Lookup(c)
  \/ \E c \in Conns : CheckFile(c)
  \/ \E c \in Conns : ReadFile(c)
  \/ \E c \in Conns : Insert(c)
  \/ \E c \in Conns : Written(c)
  \/ \E c \in Conns : Close(c)

SpecFresh == InitWith({"fresh"}) /\ [][NextFresh]_vars

\* the debounce: the index page is written and removed while time passes
NextClock ==
  \/ Tick
  \/ WriteFile(IndexFile)
  \/ RemoveFile(IndexFile)
  \/ WatchStart
  \/ Receive
  \/ WatcherLock
  \/ ProcessPath
  \/ WatcherUnlock
  \/ \E c \in Conns : Request(c, "GET", TIndex)
  \/ \E c \in Conns : Lookup(c)
  \/ \E c \in Conns : CheckFile(c)
  \/ \E c \in Conns : ReadFile(c)
  \/ \E c \in Conns : Insert(c)
  \/ \E c \in Conns : Written(c)
  \/ \E c \in Conns : Close(c)

SpecClock == InitWith({}) /\ [][NextClock]_vars

\* concurrent fills: GETs that race to read and insert a file the watcher ignores
\* while it is rewritten, and a file the watcher reacts to while it is removed
NextFill ==
  \/ WriteFile(DataFile)
  \/ RemoveFile(IndexFile)
  \/ WatchStart
  \/ Receive
  \/ WatcherLock
  \/ ProcessPath
  \/ WatcherUnlock
  \/ \E c \in Conns, target \in {TIndex, TData} : Request(c, "GET", target)
  \/ \E c \in Conns : Lookup(c)
  \/ \E c \in Conns : CheckFile(c)
  \/ \E c \in Conns : ReadFile(c)
  \/ \E c \in Conns : Insert(c)
  \/ \E c \in Conns : Written(c)
  \/ \E c \in Conns : Close(c)

SpecFill == InitWith({"fill"}) /\ [][NextFill]_vars

\* serving: every method and target, clients that stop reading or go away, a
\* watcher that may fail to start, the index page removed
NextServe ==
  \/ RemoveFile(IndexFile)
  \/ WatchStart
  \/ WatchFail
  \/ Receive
  \/ WatcherLock
  \/ ProcessPath
  \/ WatcherUnlock
  \/ \E c \in Conns, method \in Methods, target \in Targets : Request(c, method, target)
  \/ \E c \in Conns : Lookup(c)
  \/ \E c \in Conns : CheckFile(c)
  \/ \E c \in Conns : ReadFile(c)
  \/ \E c \in Conns : Insert(c)
  \/ \E c \in Conns : Written(c)
  \/ \E c \in Conns : Broken(c)
  \/ \E c \in Conns : Close(c)

SpecServe == InitWith({}) /\ [][NextServe]_vars

\* the root mapping: GETs for / and /index.html while the index page is written
\* and removed
NextRoot ==
  \/ WriteFile(IndexFile)
  \/ RemoveFile(IndexFile)
  \/ WatchStart
  \/ Receive
  \/ WatcherLock
  \/ ProcessPath
  \/ WatcherUnlock
  \/ \E c \in Conns, target \in {TRoot, TIndex} : Request(c, "GET", target)
  \/ \E c \in Conns : Lookup(c)
  \/ \E c \in Conns : CheckFile(c)
  \/ \E c \in Conns : ReadFile(c)
  \/ \E c \in Conns : Insert(c)
  \/ \E c \in Conns : Written(c)
  \/ \E c \in Conns : Close(c)

SpecRoot == InitWith({}) /\ [][NextRoot]_vars

\* the watcher: every kind of item arrives while one connection fills the store
NextWatch ==
  \/ \E item \in Notices : Emit(item)
  \/ WatchStart
  \/ Receive
  \/ WatcherLock
  \/ ProcessPath
  \/ WatcherUnlock
  \/ \E target \in {TIndex, TData} : Request("c1", "GET", target)
  \/ Lookup("c1")
  \/ CheckFile("c1")
  \/ ReadFile("c1")
  \/ Insert("c1")
  \/ Written("c1")
  \/ Close("c1")

SpecWatch == InitWith({"watch"}) /\ [][NextWatch]_vars

\* the items of Notices the watcher processes
Storm == {item \in Notices : Matched(item) /\ \E i \in DOMAIN item.paths : Recognized(item.paths[i])}

\* an event storm: events for two keys keep arriving while time passes
NextStorm ==
  \/ Tick
  \/ \E item \in Storm : Emit(item)
  \/ WatchStart
  \/ Receive
  \/ WatcherLock
  \/ ProcessPath
  \/ WatcherUnlock
  \/ Request("c1", "GET", TIndex)
  \/ Lookup("c1")
  \/ CheckFile("c1")
  \/ ReadFile("c1")
  \/ Insert("c1")
  \/ Written("c1")
  \/ Close("c1")

SpecStorm == InitWith({"watch"}) /\ [][NextStorm]_vars

\* confinement: GETs for the index page and for the targets that are no plain path
NextPaths ==
  \/ \E c \in Conns, target \in {TIndex} \cup Crooked : Request(c, "GET", target)
  \/ \E c \in Conns : Lookup(c)
  \/ \E c \in Conns : CheckFile(c)
  \/ \E c \in Conns : ReadFile(c)
  \/ \E c \in Conns : Insert(c)
  \/ \E c \in Conns : Written(c)
  \/ \E c \in Conns : Close(c)

SpecPaths == InitWith({}) /\ [][NextPaths]_vars

\* two names of one file: GETs for the index page under its plain target and
\* under a target with a parent-directory segment, while the page is rewritten
NextAlias ==
  \/ WriteFile(IndexFile)
  \/ WatchStart
  \/ Receive
  \/ WatcherLock
  \/ ProcessPath
  \/ WatcherUnlock
  \/ \E c \in Conns, target \in {TIndex, TAlias} : Request(c, "GET", target)
  \/ \E c \in Conns : Lookup(c)
  \/ \E c \in Conns : CheckFile(c)
  \/ \E c \in Conns : ReadFile(c)
  \/ \E c \in Conns : Insert(c)
  \/ \E c \in Conns : Written(c)
  \/ \E c \in Conns : Close(c)

SpecAlias == InitWith({}) /\ [][NextAlias]_vars

\* the store: GETs and POSTs for the index page and a missing file while the page
\* is written and removed
NextStore ==
  \/ WriteFile(IndexFile)
  \/ RemoveFile(IndexFile)
  \/ WatchStart
  \/ Receive
  \/ WatcherLock
  \/ ProcessPath
  \/ WatcherUnlock
  \/ \E c \in Conns, method \in Methods, target \in {TIndex, TMissing} :
       Request(c, method, target)
  \/ \E c \in Conns : Lookup(c)
  \/ \E c \in Conns : CheckFile(c)
  \/ \E c \in Conns : ReadFile(c)
  \/ \E c \in Conns : Insert(c)
  \/ \E c \in Conns : Written(c)
  \/ \E c \in Conns : Close(c)

SpecStore == InitWith({"store"}) /\ [][NextStore]_vars

\* the lock: GETs for the index page race with each other and with the watcher
\* while the page is rewritten
NextLive ==
  \/ WriteFile(IndexFile)
  \/ WatchStart
  \/ Receive
  \/ WatcherLock
  \/ ProcessPath
  \/ WatcherUnlock
  \/ \E c \in Conns : Request(c, "GET", TIndex)
  \/ \E c \in Conns : Lookup(c)
  \/ \E c \in Conns : CheckFile(c)
  \/ \E c \in Conns : ReadFile(c)
  \/ \E c \in Conns : Insert(c)
  \/ \E c \in Conns : Written(c)
  \/ \E c \in Conns : Close(c)

\* every thread keeps running, every client reads its response (Written), and the
\* RwLock lets no waiter wait for ever while the lock comes free again and again
Fair ==
  /\ \A c \in Conns :
       /\ SF_vars(Lookup(c))
       /\ SF_vars(Insert(c))
       /\ WF_vars(CheckFile(c))
       /\ WF_vars(ReadFile(c))
       /\ WF_vars(Written(c))
  /\ SF_vars(WatcherLock)
  /\ WF_vars(ProcessPath)
  /\ WF_vars(WatcherUnlock)

SpecLive == InitWith({}) /\ [][NextLive]_vars /\ Fair

(***************************************************************************)
(* Claims.                                                                 *)
(***************************************************************************)
\* the request in slot c has its response: built, or already written
Answered(c) == conn[c].pc \in {"write", "done"}
Status(c) == IF conn[c].out = <<>> THEN "" ELSE conn[c].out[1]
Ok200(c) == Answered(c) /\ Status(c) = "HTTP/1.1 200 OK"
\* the request in slot c has taken the step
Did(c, step) == \E i \in DOMAIN obs[c].trace : obs[c].trace[i] = step
\* the request in slot c takes the step now
Does(c, step) ==
  /\ Len(obs'[c].trace) = Len(obs[c].trace) + 1
  /\ obs'[c].trace[Len(obs'[c].trace)] = step

\* C1: a stored key whose recognized file is modified, the event matched by the
\* watcher, followed by more than 200 ms without a change or a request: the next
\* GET returns the post-modification content.
C1_InvalidationCorrectness ==
  \A c \in Conns :
    Ok200(c) /\ obs[c].owedQuiet > 0 =>
      VersionOf(conn[c].contents) >= obs[c].owedQuiet

\* C2: once the watcher has accepted the event of the file's latest modification
\* and the window has elapsed, every GET that starts afterwards returns the
\* post-modification content, whatever other requests are doing.
C2_FreshAfterAccept ==
  \A c \in Conns :
    Ok200(c) /\ obs[c].owedAccepted > 0 =>
      VersionOf(conn[c].contents) >= obs[c].owedAccepted
\* C3 as stated: a retrieval of P that starts after the first retrieval has
\* filled the store, with no invalidation of P since, is answered from the store
\* without a disk read, with the bytes of the first disk read.
C3_FirstReadServed ==
  \A c \in Conns :
    Ok200(c) /\ obs[c].later /\ hist.first[conn[c].path].state = "inserted" =>
      /\ ~Did(c, "read")
      /\ conn[c].contents = hist.first[conn[c].path].data

\* C3 amended: such a retrieval is answered from the store without a disk read,
\* with the bytes of the entry the most recent insert of P stored; every 200
\* response being written carries the stored entry; and the bytes are those of
\* the first disk read unless another request inserted after the first one did.
C3_LastInsertServed ==
  /\ \A c \in Conns :
       obs[c].later /\ hist.first[conn[c].path].state = "inserted" =>
         /\ conn[c].pc \notin {"check", "read", "insert", "failed"}
         /\ ~Did(c, "miss") /\ ~Did(c, "read") /\ ~Did(c, "insert")
         /\ Ok200(c) /\ ~hist.refilled[conn[c].path] =>
              conn[c].contents = hist.first[conn[c].path].data
  /\ \A c \in Conns :
       conn[c].pc = "write" /\ Status(c) = "HTTP/1.1 200 OK" =>
         /\ conn[c].path \in DOMAIN cache
         /\ cache[conn[c].path].contents = conn[c].contents
         /\ cache[conn[c].path].mime_type = conn[c].mime_type
  /\ \A k \in Keys :
       hist.first[k].state = "inserted" => k \in DOMAIN cache

\* C3 witness: a later retrieval hit the store after a concurrent first request
\* had replaced the first fill with newer bytes
C3_Witness ==
  \E c \in Conns :
    /\ Ok200(c) /\ obs[c].later /\ Did(c, "hit")
    /\ hist.first[conn[c].path].state = "inserted"
    /\ hist.refilled[conn[c].path]
    /\ conn[c].contents # hist.first[conn[c].path].data

\* C4: two remove calls for one key are never less than 200 ms apart, and the
\* ledger holds the time of the key's last remove call.
C4_Debounce ==
  /\ ~hist.tooSoon
  /\ \A k \in EventKeys :
       hist.removedAt[k] # Never =>
         k \in DOMAIN last_event_time /\ last_event_time[k] = hist.removedAt[k]

\* C4 witness: an event was suppressed less than 200 ms after an accepted one,
\* which itself came 200 ms or more after the start
C4_Witness ==
  \E k \in EventKeys :
    /\ hist.skipped[k]
    /\ hist.removedAt[k] >= DebounceMs
    /\ now - hist.removedAt[k] < DebounceMs
    /\ now > hist.removedAt[k]

\* C5: no thread holds the store lock while it is writing a response.
C5_NoLockWhileWriting ==
  \A c \in Conns : conn[c].pc = "write" => c \notin readers /\ writer # c

\* C6: once the watcher could not be created or registered, no connection is
\* accepted or answered.
C6_WatchFailureFatal ==
  \A c \in Conns : ~(obs[c].unwatched /\ conn[c].pc # "idle")

\* the shape of a success response for a body and its type
SuccessShape(w, body, mime_type) ==
  LET typed == mime_type # "application/octet-stream"
      head == IF typed THEN 7 ELSE 5
  IN /\ Len(w) = head + Len(body)
     /\ w[1] = "HTTP/1.1 200 OK" /\ w[2] = CRLF
     /\ w[3] = "Content-Length: " \o ToString(Len(body)) /\ w[4] = CRLF
     /\ typed => w[5] = "Content-Type: " \o mime_type /\ w[6] = CRLF
     /\ w[head] = CRLF
     /\ SubSeq(w, head + 1, Len(w)) = body

\* C7: every success response is status line, Content-Length, Content-Type unless
\* the type is application/octet-stream, an empty line, then the body.
C7_SuccessShape ==
  \A c \in Conns :
    Ok200(c) => SuccessShape(conn[c].out, conn[c].contents, conn[c].mime_type)

NotFound ==
  <<"HTTP/1.1 404 Not Found", CRLF, "Content-Length: 22", CRLF,
    "Content-Type: text/html", CRLF, CRLF, "<h1>404 Not Found</h1>">>

\* C8: a GET that missed the store and found no regular file at its path gets the
\* 404 response, reads and inserts nothing, and the step leaves the store as it was.
C8_MissingFile ==
  /\ [](\A c \in Conns :
          Did(c, "nofile") =>
            /\ conn[c].pc \in {"write", "done", "failed"}
            /\ conn[c].out = NotFound
            /\ ~Did(c, "read") /\ ~Did(c, "insert"))
  /\ [][\A c \in Conns : Does(c, "nofile") => cache' = cache]_vars

\* C8 witness: a missing file and a directory have both been answered with 404
\* while the store held another entry
C8_Witness ==
  \E c, d \in Conns :
    /\ conn[c].pc = "done" /\ conn[c].target = TMissing /\ Did(c, "nofile")
    /\ conn[d].pc = "done" /\ conn[d].target = TAssets /\ Did(d, "nofile")
    /\ conn[c].out = NotFound /\ conn[d].out = NotFound
    /\ TData \in DOMAIN cache

NotAllowed ==
  <<"HTTP/1.1 405 Method Not Allowed", CRLF, "Content-Length: 31", CRLF,
    "Content-Type: text/html", CRLF, CRLF, "<h1>405 Method Not Allowed</h1>">>

\* C9: a request with another method than GET gets the 405 response; it looks
\* nothing up, reads no file, inserts nothing and takes no lock.
C9_MethodRestriction ==
  /\ [](\A c \in Conns :
          conn[c].pc # "idle" /\ conn[c].method # "GET" =>
            /\ conn[c].pc \in {"write", "done", "failed"}
            /\ conn[c].out = NotAllowed
            /\ obs[c].trace = <<>>
            /\ c \notin readers /\ writer # c)
  /\ [][\A c \in Conns :
          conn[c].pc = "idle" /\ conn'[c].pc # "idle" /\ conn'[c].method # "GET" =>
            UNCHANGED <<cache, readers, writer, fs>>]_vars

\* C9 witness: a POST for a stored key whose file exists has been answered with 405
C9_Witness ==
  \E c \in Conns :
    /\ conn[c].pc = "done" /\ conn[c].method = "POST" /\ conn[c].target = TIndex
    /\ conn[c].out = NotAllowed
    /\ TIndex \in DOMAIN cache /\ FileAt(IndexFile).kind = "file"

\* C10: GET / and GET /index.html use the key /index.html and the file index.html
\* under the root, which is the key the watcher removes for that file; a 200
\* response to either carries the entry of that key, and a stored entry is a hit
\* for both.
C10_RootMapping ==
  /\ [](\A c \in Conns :
          conn[c].pc # "idle" /\ conn[c].method = "GET"
            /\ conn[c].target \in {TRoot, TIndex} =>
              /\ conn[c].path = TIndex
              /\ FilePath(conn[c].path) = IndexFile
              /\ RelativePath(FilePath(conn[c].path)) = conn[c].path
              /\ conn[c].pc = "write" /\ Status(c) = "HTTP/1.1 200 OK" =>
                   /\ TIndex \in DOMAIN cache
                   /\ cache[TIndex].contents = conn[c].contents)
  /\ [][\A c \in Conns :
          conn[c].pc = "lookup" /\ conn'[c].pc # "lookup"
            /\ conn[c].target \in {TRoot, TIndex} =>
              IF TIndex \in DOMAIN cache
                THEN conn'[c].pc = "write" /\ conn'[c].out =
                       RespondWithFile(cache[TIndex].contents, cache[TIndex].mime_type)
                ELSE conn'[c].pc = "check"]_vars

\* C10 witness: GET /index.html filled the store, GET / was served that entry, and
\* a later change to index.html removed it for both
C10_Witness ==
  \E c, d \in Conns :
    /\ conn[d].target = TIndex /\ conn[d].pc = "done" /\ Did(d, "insert")
    /\ conn[c].target = TRoot /\ conn[c].pc = "done" /\ Did(c, "hit")
    /\ conn[c].out = conn[d].out
    /\ TIndex \notin DOMAIN cache
    /\ hist.removedAt[TIndex] # Never

\* the watcher takes the next item off its channel
Receives == watcher.pc = "recv" /\ queue # <<>> /\ queue' = Tail(queue)
\* the watcher works on the next path of its batch
Processes == watcher.pc = "loop" /\ watcher.paths # <<>> /\ watcher' # watcher

\* C11: an error item is skipped: taking it off the channel leaves the store, the
\* ledger, the lock and the watcher's position as they were, so the watcher goes
\* on receiving and every later item meets the state it would have met without it.
C11_ErrorSkipped ==
  [][Receives /\ ~Head(queue).ok =>
         /\ UNCHANGED <<cache, last_event_time, watcher, readers, writer>>
         /\ watcher'.pc = "recv"]_vars

\* C11 witness: an error item was skipped and an event of the next batch accepted
C11_Witness ==
  /\ hist.prior = "error"
  /\ watcher.pc = "loop"
  /\ \E i \in DOMAIN hist.batch : hist.batch[i] = "accepted"
  /\ TIndex \in DOMAIN last_event_time

\* C17: an event of a kind other than modify, create and remove, and a path with no
\* extension or one other than html, css and js, leave the store and the ledger as
\* they were; the paths after a filtered one stay to be processed, and a path with
\* one of the three extensions that the ledger does not suppress is removed.
C17_FilterFrame ==
  /\ [][Receives /\ Head(queue).ok
           /\ Head(queue).kind \notin {"modify", "create", "remove"} =>
         UNCHANGED <<cache, last_event_time, watcher>>]_vars
  /\ [][Processes =>
         LET path == Head(watcher.paths)
             key == RelativePath(path)
         IN IF Extension(path) \notin {"html", "css", "js"}
              THEN /\ UNCHANGED <<cache, last_event_time>>
                   /\ watcher'.pc = "loop"
                   /\ watcher'.paths = Tail(watcher.paths)
              ELSE /\ watcher'.paths = Tail(watcher.paths)
                   /\ \/ key \in DOMAIN last_event_time
                         /\ now - last_event_time[key] < DebounceMs
                      \/ /\ key \notin DOMAIN cache'
                         /\ key \in DOMAIN last_event_time'
                         /\ last_event_time'[key] = now]_vars

\* C17 witness: after an event of another kind was dropped, a batch whose first
\* two paths were filtered out had its third path accepted, and the store still
\* holds the entry of the filtered file
C17_Witness ==
  /\ hist.prior = "dropped"
  /\ watcher.pc = "loop"
  /\ hist.batch = <<"filtered", "filtered", "accepted">>
  /\ TData \in DOMAIN cache
  /\ TIndex \notin DOMAIN cache
  /\ DOMAIN last_event_time = {TIndex}

\* C16: an event for a key is accepted (ledger written, entry removed) when no
\* event for the key was accepted before or the last accepted one is 200 ms or
\* more old, whatever was suppressed since; otherwise it is suppressed and writes
\* nothing; and in either case the ledger and store entries of every other key
\* stay as they were.
C16_LeadingEdge ==
  [][Processes /\ Extension(Head(watcher.paths)) \in {"html", "css", "js"} =>
       LET key == RelativePath(Head(watcher.paths)) IN
         /\ IF hist.removedAt[key] = Never \/ now - hist.removedAt[key] >= DebounceMs
              THEN /\ key \in DOMAIN last_event_time'
                   /\ last_event_time'[key] = now
                   /\ key \notin DOMAIN cache'
              ELSE UNCHANGED <<cache, last_event_time>>
         /\ \A k \in (DOMAIN last_event_time \cup DOMAIN last_event_time') \ {key} :
              /\ k \in DOMAIN last_event_time /\ k \in DOMAIN last_event_time'
              /\ last_event_time'[k] = last_event_time[k]
         /\ \A k \in (DOMAIN cache \cup DOMAIN cache') \ {key} :
              /\ k \in DOMAIN cache /\ k \in DOMAIN cache'
              /\ cache'[k] = cache[k]]_vars

\* C16 witness: an event was accepted 200 ms or more after the last accepted one
\* of its key with suppressed events in between, while the other key was accepted
\* at a time of its own, inside the first key's window
C16_Witness ==
  /\ hist.stormed
  /\ TIndex \in DOMAIN last_event_time
  /\ TMissing \in DOMAIN last_event_time
  /\ last_event_time[TMissing] > last_event_time[TIndex]
  /\ last_event_time[TMissing] - last_event_time[TIndex] < DebounceMs

\* C12: a GET looks the key up before it touches the file system: the lookup is
\* the first step of every request, a request is past the lookup only after a
\* miss, and a request that hit does nothing else: no file check, no read, no
\* insert, and the hit leaves the store as it was.
C12_LookupFirst ==
  /\ [](\A c \in Conns :
          conn[c].pc # "idle" /\ conn[c].method = "GET" =>
            /\ obs[c].trace # <<>> => obs[c].trace[1] \in {"hit", "miss"}
            /\ conn[c].pc \in {"check", "read", "insert"} =>
                 obs[c].trace # <<>> /\ obs[c].trace[1] = "miss"
            /\ Did(c, "hit") =>
                 /\ obs[c].trace = <<"hit">>
                 /\ conn[c].pc \in {"write", "done", "failed"})
  /\ [][\A c \in Conns : Does(c, "hit") => UNCHANGED <<cache, fs>>]_vars

\* C12 witness: a GET was served from the store although its file was gone, so a
\* look at the disk would have shown
C12_Witness ==
  \E c \in Conns :
    /\ conn[c].pc = "done" /\ conn[c].target = TIndex
    /\ obs[c].trace = <<"hit">>
    /\ Status(c) = "HTTP/1.1 200 OK"
    /\ FileAt(IndexFile).kind = "none"

\* the file lies in the subtree of the watch root
Inside(p) == StripPrefix(p, BaseDir).ok

\* C13: whatever the target, the file a request reads on a miss lies inside the
\* watch root, and so does the file of every key the store holds and of every
\* success response.
C13_PathConfinement ==
  /\ \A c \in Conns : Did(c, "read") => Inside(FilePath(conn[c].path))
  /\ \A k \in DOMAIN cache : Inside(FilePath(k))

\* C18: a request that finds an html, css or js file under the root stores it
\* under the key the watcher computes for that file; hence when the watcher
\* accepts an event for a file, no entry read from that file stays in the store.
C18_KeyAgreement ==
  /\ [](\A c \in Conns :
          LET f == FilePath(conn[c].path) IN
            Did(c, "file") /\ Inside(f) /\ Extension(f) \in {"html", "css", "js"} =>
              RelativePath(f) = conn[c].path)
  /\ [][Processes /\ Extension(Head(watcher.paths)) \in {"html", "css", "js"}
           /\ RelativePath(Head(watcher.paths)) \in DOMAIN last_event_time'
           /\ last_event_time'[RelativePath(Head(watcher.paths))] = now
           /\ last_event_time' # last_event_time =>
         \A k \in DOMAIN cache' : FilePath(k) # Head(watcher.paths)]_vars

\* C15: a GET whose client keeps the connection open ends with one response, 200
\* or 404; when the file was there at the check and is gone at the read, the
\* response is the 404 one.
C15_OneResponse ==
  \A c \in Conns :
    conn[c].method = "GET" /\ conn[c].pc \in {"done", "failed"} =>
      /\ Status(c) \in {"HTTP/1.1 200 OK", "HTTP/1.1 404 Not Found"}
      /\ Did(c, "readerr") => conn[c].out = NotFound

\* the status lines of the error responses
Refusals == {"HTTP/1.1 404 Not Found", "HTTP/1.1 405 Method Not Allowed"}

\* C14: every entry of the store is a whole (content, type) pair whose content
\* the file of its key has held and whose type is the classifier's for that file;
\* the store changes only by the removal of one entry or by one request putting
\* one whole entry, the one it answers 200 with; and a request answered 404 or 405
\* has inserted nothing and its answer left the store as it was.
C14_StoreInvariant ==
  /\ [](\A k \in DOMAIN cache :
          LET f == FilePath(k) IN
            /\ DOMAIN cache[k] = {"contents", "mime_type"}
            /\ f \in Files /\ cache[k].contents \in hist.had[f]
            /\ cache[k].mime_type =
                 (CASE f = IndexFile -> "text/html"
                    [] f = OutsideFile -> "text/html"
                    [] f = MissingFile -> "text/css"
                    [] OTHER -> "application/octet-stream"))
  /\ [][cache' # cache =>
         \/ \E k \in DOMAIN cache : cache' = [j \in DOMAIN cache \ {k} |-> cache[j]]
         \/ \E c \in Conns :
              /\ conn[c].pc = "insert" /\ conn'[c].pc = "write"
              /\ conn'[c].out[1] = "HTTP/1.1 200 OK"
              /\ DOMAIN cache' = DOMAIN cache \cup {conn[c].path}
              /\ cache'[conn[c].path] =
                   [contents |-> conn[c].contents, mime_type |-> conn[c].mime_type]
              /\ \A j \in DOMAIN cache \ {conn[c].path} : cache'[j] = cache[j]]_vars
  /\ [](\A c \in Conns : Status(c) \in Refusals => ~Did(c, "insert"))
  /\ [][\A c \in Conns :
          conn[c].out = <<>> /\ conn'[c].out # <<>> /\ conn'[c].out[1] \in Refusals =>
            cache' = cache]_vars

\* C14 witness: the store holds for the index page a content the file held before
\* its last change, while one request has been answered 404 and one 405
C14_Witness ==
  /\ TIndex \in DOMAIN cache
  /\ FileAt(IndexFile).kind = "file"
  /\ cache[TIndex].contents # FileAt(IndexFile).data
  /\ \E c, d \in Conns :
       /\ conn[c].pc = "done" /\ Status(c) = "HTTP/1.1 404 Not Found"
       /\ conn[d].pc = "done" /\ Status(d) = "HTTP/1.1 405 Method Not Allowed"

\* C19: a thread waiting for the lock holds it in no mode (so a connection has
\* let go of read mode before it asks for write mode), write mode excludes every
\* other holder, and, clients reading their responses, every pending lookup,
\* insert and invalidation completes.
C19_DeadlockFree ==
  /\ [](\A c \in Conns :
          conn[c].pc \in {"lookup", "insert"} => c \notin readers /\ writer # c)
  /\ [](watcher.pc = "lock" => writer # Engine)
  /\ [](writer # NoOne => readers = {})
  /\ \A c \in Conns : conn[c].pc = "lookup" ~> conn[c].pc \in {"check", "write"}
  /\ \A c \in Conns : conn[c].pc = "insert" ~> conn[c].pc = "write"
  /\ \A c \in Conns : conn[c].pc = "write" ~> c \notin readers /\ writer # c
  /\ watcher.pc = "lock" ~> (watcher.pc = "recv" /\ writer # Engine)

====
